---- MODULE Spec2Model ----
(***************************************************************************)
(* Model of ImageEmbedding/app.py: the model provisioning done at process  *)
(* start, the ImageEmbedderService wrapper, and the three POST handlers    *)
(* (/upload, /api/similarity, /api/embeddings) run by concurrent request   *)
(* threads over one shared disk.                                           *)
(***************************************************************************)
EXTENDS Integers, Sequences, FiniteSets, TLC

(***************************************************************************)
(* Python float arithmetic (IEEE-754 binary64, round to nearest even) for  *)
(* the two divisions of resize_image_for_display.  A positive double is    *)
(* [m, e] = m * 2^e with 2^52 <= m < 2^53; the 53-bit m is kept as a pair  *)
(* <<hi, lo>> = hi * 2^27 + lo so that every step stays in 32-bit range.   *)
(***************************************************************************)
Limb == 2^27

BigDbl(x, bit) ==
    LET l == 2 * x[2] + bit
    IN  <<2 * x[1] + (l \div Limb), l % Limb>>

BigGeq(x, y) == x[1] > y[1] \/ (x[1] = y[1] /\ x[2] >= y[2])

BigSub(x, y) ==
    IF x[2] >= y[2] THEN <<x[1] - y[1], x[2] - y[2]>>
                    ELSE <<x[1] - y[1] - 1, x[2] + Limb - y[2]>>

BigInc(x) == IF x[2] + 1 = Limb THEN <<x[1] + 1, 0>> ELSE <<x[1], x[2] + 1>>

\* Round a 53-bit quotient m (value m * 2^e) given the next quotient bit and
\* whether any later bit is set: to nearest, ties to even.
RoundNearestEven(m, e, guard, sticky) ==
    LET up == guard = 1 /\ (sticky \/ m[2] % 2 = 1)
        m2 == IF up THEN BigInc(m) ELSE m
    IN  IF m2 = <<2^26, 0>> THEN [m |-> <<2^25, 0>>, e |-> e + 1]
                            ELSE [m |-> m2, e |-> e]

\* Scale a / b into [1, 2): returns <<a', b', j>> with a/b = (a'/b') * 2^j.
RECURSIVE NormSmall(_, _, _)
NormSmall(a, b, j) ==
    IF a < b /\ j > -64 THEN NormSmall(2 * a, b, j - 1)
    ELSE IF a >= 2 * b /\ j < 64 THEN NormSmall(a, 2 * b, j + 1)
    ELSE <<a, b, j>>

\* Long division of r / b (r < b), one quotient bit per step appended to m,
\* until m holds 53 bits.  Returns <<m, remainder>>.
RECURSIVE SmallQuot(_, _, _)
SmallQuot(r, b, m) ==
    IF m[1] >= 2^25 THEN <<m, r>>
    ELSE IF 2 * r >= b THEN SmallQuot(2 * r - b, b, BigDbl(m, 1))
    ELSE SmallQuot(2 * r, b, BigDbl(m, 0))

\* int / int true division: the double nearest to a / b (a, b > 0).
IntDivInt(a, b) ==
    LET n   == NormSmall(a, b, 0)
        qr  == SmallQuot(n[1] - n[2], n[2], <<0, 1>>)
        r2  == 2 * qr[2]
        g   == IF r2 >= n[2] THEN 1 ELSE 0
        rem == r2 - g * n[2]
    IN  RoundNearestEven(qr[1], n[3] - 52, g, rem # 0)

\* Double R until R >= m: returns <<R', t>> with R' = R * 2^t (t <= 53
\* because R >= 1 and m < 2^53).
RECURSIVE NormBig(_, _, _)
NormBig(R, m, t) ==
    IF BigGeq(R, m) \/ t > 53 THEN <<R, t>> ELSE NormBig(BigDbl(R, 0), m, t + 1)

\* Long division of R / m (R < m), one quotient bit per step appended to M,
\* until M holds 53 bits.  Returns <<M, remainder>>.
RECURSIVE BigQuot(_, _, _)
BigQuot(R, m, M) ==
    IF M[1] >= 2^25 THEN <<M, R>>
    ELSE IF BigGeq(BigDbl(R, 0), m) THEN BigQuot(BigSub(BigDbl(R, 0), m), m, BigDbl(M, 1))
    ELSE BigQuot(BigDbl(R, 0), m, BigDbl(M, 0))

\* int / float: the double nearest to a / q (0 < a < 2^27, q a double).
IntDivFloat(a, q) ==
    LET n   == NormBig(<<0, a>>, q.m, 0)
        qr  == BigQuot(BigSub(n[1], q.m), q.m, <<0, 1>>)
        R2  == BigDbl(qr[2], 0)
        g   == IF BigGeq(R2, q.m) THEN 1 ELSE 0
        rem == IF g = 1 THEN BigSub(R2, q.m) ELSE R2
    IN  RoundNearestEven(qr[1], 0 - 52 - n[2] - q.e, g, rem # <<0, 0>>)

\* math.floor of a positive double below 2^27.
MathFloor(f) ==
    LET s == 0 - f.e
    IN  IF s >= 53 THEN 0
        ELSE IF s >= 27 THEN f.m[1] \div 2^(s - 27)
        ELSE f.m[1] * 2^(27 - s) + (f.m[2] \div 2^s)

(***************************************************************************)
(* Similarity scores.  A score is the integer k standing for k / SimUnit;  *)
(* the grid holds every hundredth (0.30, 0.90, ...) and every multiple of  *)
(* 2^-SimBits (exact doubles, where round() meets exact ties) of [-1, 1].  *)
(***************************************************************************)
SimBits == 6

SimUnit == 100 * 2^SimBits

SimValues == {k \in (0 - SimUnit)..SimUnit : k % 100 = 0 \/ k % (2^SimBits) = 0}

\* Python round(n / d, 0) for an exactly known quotient: nearest, ties to even.
RoundHalfEven(n, d) ==
    LET q == n \div d
        r == n % d
    IN  IF 2 * r < d THEN q
        ELSE IF 2 * r > d THEN q + 1
        ELSE IF q % 2 = 0 THEN q ELSE q + 1

\* A plausible slip: truncating instead of rounding.
similarity_percentage_trunc(similarity) == (similarity * 10000) \div SimUnit

\* round(similarity * 100, 2), in hundredths of a percent.
similarity_percentage(similarity) == RoundHalfEven(similarity * 10000, SimUnit)

\* A plausible slip: '>' for '>=' at the top threshold.
get_similarity_interpretation_gt(similarity) ==
    IF 10 * similarity > 9 * SimUnit THEN "Very similar images"
    ELSE IF 10 * similarity >= 7 * SimUnit THEN "Similar images"
    ELSE IF 10 * similarity >= 5 * SimUnit THEN "Somewhat similar images"
    ELSE IF 10 * similarity >= 3 * SimUnit THEN "Slightly similar images"
    ELSE "Very different images"

get_similarity_interpretation(similarity) ==
    IF 10 * similarity >= 9 * SimUnit THEN "Very similar images"
    ELSE IF 10 * similarity >= 7 * SimUnit THEN "Similar images"
    ELSE IF 10 * similarity >= 5 * SimUnit THEN "Somewhat similar images"
    ELSE IF 10 * similarity >= 3 * SimUnit THEN "Slightly similar images"
    ELSE "Very different images"

(***************************************************************************)
(* Strings.  A file name or a path is the sequence of its characters, so   *)
(* that the string operations of the handlers (rsplit, lower, replace,     *)
(* split, strip, join, the f-string prefix) are computed rather than       *)
(* assumed.  The names of the model are ASCII.                             *)
(***************************************************************************)
UPLOAD_FOLDER == <<"u", "p", "l", "o", "a", "d", "s">>

ALLOWED_EXTENSIONS == {<<"p", "n", "g">>, <<"j", "p", "g">>, <<"j", "p", "e", "g">>, <<"g", "i", "f">>, <<"b", "m", "p">>}

UpperCase == 
    <<"A", "B", "C", "D", "E", "F", "G", "H", "I", "J", "K", "L", "M",
      "N", "O", "P", "Q", "R", "S", "T", "U", "V", "W", "X", "Y", "Z">>

LowerCase == 
    <<"a", "b", "c", "d", "e", "f", "g", "h", "i", "j", "k", "l", "m",
      "n", "o", "p", "q", "r", "s", "t", "u", "v", "w", "x", "y", "z">>

Digits == <<"0", "1", "2", "3", "4", "5", "6", "7", "8", "9">>

\* c.lower() for one character.
Lower(c) ==
    IF \E i \in 1..26 : UpperCase[i] = c
    THEN LowerCase[CHOOSE i \in 1..26 : UpperCase[i] = c]
    ELSE c

\* s.lower()
LowerAll(s) == [i \in 1..Len(s) |-> Lower(s[i])]

\* Index of the last '.' of a name, 0 when there is none.
LastDot(filename) ==
    LET dots == {i \in 1..Len(filename) : filename[i] = "."}
    IN  IF dots = {} THEN 0 ELSE CHOOSE i \in dots : \A j \in dots : j <= i

\* '.' in filename and filename.rsplit('.', 1)[1].lower() in ALLOWED_EXTENSIONS
allowed_file(filename) ==
    /\ LastDot(filename) # 0
    /\ LowerAll(SubSeq(filename, LastDot(filename) + 1, Len(filename)))
         \in ALLOWED_EXTENSIONS

\* The ASCII characters str.split() splits at: space, \t, \n, \v, \f, \r
\* and the separators \x1c-\x1f.  The control characters that have no
\* escape here are written by their ASCII names: "VT" is \x0b, "FS" \x1c,
\* "GS" \x1d, "RS" \x1e, "US" \x1f.
Whitespace == {" ", "\t", "\n", "\r", "\f", "VT", "FS", "GS", "RS", "US"}

IsAlnum(c) == \/ \E i \in 1..26 : UpperCase[i] = c \/ LowerCase[i] = c
              \/ \E i \in 1..10 : Digits[i] = c

\* The characters werkzeug's _filename_ascii_strip_re keeps: [A-Za-z0-9_.-].
IsSafeChar(c) == IsAlnum(c) \/ c \in {"_", ".", "-"}

\* filename.replace(os.path.sep, " ")
SepToSpace(s) == [i \in 1..Len(s) |-> IF s[i] = "/" THEN " " ELSE s[i]]

\* "_".join(s.split()): the words of s joined by '_'; started says a word has
\* been emitted, pending that whitespace followed it.
RECURSIVE JoinWords(_, _, _)
JoinWords(s, started, pending) ==
    IF s = <<>> THEN <<>>
    ELSE IF Head(s) \in Whitespace THEN JoinWords(Tail(s), started, started)
    ELSE (IF pending THEN <<"_", Head(s)>> ELSE <<Head(s)>>)
         \o JoinWords(Tail(s), TRUE, FALSE)

\* s.strip("._")
RECURSIVE StripDotUnderscore(_)
StripDotUnderscore(s) ==
    IF s = <<>> THEN <<>>
    ELSE IF Head(s) \in {".", "_"} THEN StripDotUnderscore(Tail(s))
    ELSE IF s[Len(s)] \in {".", "_"} THEN StripDotUnderscore(SubSeq(s, 1, Len(s) - 1))
    ELSE s

\* werkzeug.utils.secure_filename on an ASCII name (POSIX): path separators
\* become spaces, the words are joined by '_', every character outside
\* [A-Za-z0-9_.-] is dropped, leading and trailing '.' and '_' are stripped.
secure_filename(filename) ==
    StripDotUnderscore(SelectSeq(JoinWords(SepToSpace(filename), FALSE, FALSE), IsSafeChar))

\* os.path.join(a, name): an absolute name discards a.
PathJoin(a, name) ==
    IF name # <<>> /\ name[1] = "/" THEN name
    ELSE IF a = <<>> \/ a[Len(a)] = "/" THEN a \o name
    ELSE a \o <<"/">> \o name

\* str(n) for n >= 0.
RECURSIVE Str(_)
Str(n) == IF n < 10 THEN <<Digits[n + 1]>> ELSE Str(n \div 10) \o <<Digits[(n % 10) + 1]>>

\* f"{timestamp}_{n}_{filename}" under the upload folder (lines 197-203).
UploadPath(timestamp, n, filename) ==
    PathJoin(UPLOAD_FOLDER, Str(timestamp) \o <<"_">> \o Str(n) \o <<"_">> \o filename)

\* image_path.replace('.', '_display.'): every '.' is replaced.
RECURSIVE DisplayPath(_)
DisplayPath(image_path) ==
    IF image_path = <<>> THEN <<>>
    ELSE (IF Head(image_path) = "." THEN <<"_", "d", "i", "s", "p", "l", "a", "y", ".">> ELSE <<Head(image_path)>>)
         \o DisplayPath(Tail(image_path))

\* tempfile.NamedTemporaryFile(delete=False, suffix='.jpg').name: a fresh name
\* in the temp directory.
TempPath(n) == <<"/", "t", "m", "p", "/", "t", "m", "p">> \o Str(n) \o <<".", "j", "p", "g">>

\* The extensions cv2.imwrite finds an encoder for (a build without a <<"g", "i", "f">>
\* codec, the one in which cv2.imread returns None for a <<"g", "i", "f">>).
ImwriteExtensions ==
    {<<"p", "n", "g">>, <<"j", "p", "g">>, <<"j", "p", "e", "g">>, <<"j", "p", "e">>, <<"b", "m", "p">>, <<"d", "i", "b">>, <<"w", "e", "b", "p">>, <<"t", "i", "f", "f">>, <<"t", "i", "f">>}

\* The extension cv2.imwrite looks at: the letters and digits that follow the
\* last '.' of the path.
RECURSIVE AlnumPrefix(_)
AlnumPrefix(s) ==
    IF s = <<>> \/ ~IsAlnum(Head(s)) THEN <<>> ELSE <<Head(s)>> \o AlnumPrefix(Tail(s))

\* cv2.imwrite(path, image) finds a writer; otherwise it raises cv2.error.
HasWriter(path) ==
    /\ LastDot(path) # 0
    /\ LowerAll(AlnumPrefix(SubSeq(path, LastDot(path) + 1, Len(path))))
         \in ImwriteExtensions

(***************************************************************************)
(* resize_image_for_display: the size computation of lines 124-130.        *)
(***************************************************************************)
DefaultDesired == 480

\* A plausible slip: '<=' for '<' in the orientation test.
NewSize_le(w, h, desired_height, desired_width) ==
    IF h <= w
    THEN <<desired_width, MathFloor(IntDivFloat(h, IntDivInt(w, desired_width)))>>
    ELSE <<MathFloor(IntDivFloat(w, IntDivInt(h, desired_height))), desired_height>>

\* (new_width, new_height) for a decoded h x w image.
NewSize(w, h, desired_height, desired_width) ==
    IF h < w
    THEN <<desired_width, MathFloor(IntDivFloat(h, IntDivInt(w, desired_width)))>>
    ELSE <<MathFloor(IntDivFloat(w, IntDivInt(h, desired_height))), desired_height>>

\* The size None of the fallback return is the empty tuple.
NoSize == <<>>

\* A plausible slip: no try/except, so a failure reaches the caller.
resize_image_for_display_raises(image_path, decodes, w, h, desired_height, desired_width) ==
    LET size == NewSize(w, h, desired_height, desired_width)
    IN  IF ~decodes \/ size[1] <= 0 \/ size[2] <= 0 \/ ~HasWriter(DisplayPath(image_path))
        THEN [path |-> image_path, size |-> NoSize, wrote |-> FALSE, raised |-> TRUE]
        ELSE [path |-> DisplayPath(image_path), size |-> size, wrote |-> TRUE,
              raised |-> FALSE]

\* What the function returns for an image file: decodes says whether
\* cv2.imread produced an array of shape (h, w).  cv2.resize raises for an
\* empty target size and cv2.imwrite for a path it has no writer for; every
\* exception ends in the fallback of line 141, so nothing is raised to the
\* caller.
resize_image_for_display(image_path, decodes, w, h, desired_height, desired_width) ==
    LET size == NewSize(w, h, desired_height, desired_width)
    IN  IF ~decodes
        THEN [path |-> image_path, size |-> NoSize, wrote |-> FALSE, raised |-> FALSE]
        ELSE IF size[1] <= 0 \/ size[2] <= 0
        THEN [path |-> image_path, size |-> NoSize, wrote |-> FALSE, raised |-> FALSE]
        ELSE IF ~HasWriter(DisplayPath(image_path))
        THEN [path |-> image_path, size |-> NoSize, wrote |-> FALSE, raised |-> FALSE]
        ELSE [path |-> DisplayPath(image_path), size |-> size, wrote |-> TRUE,
              raised |-> FALSE]

(***************************************************************************)
(* State.                                                                  *)
(***************************************************************************)
VARIABLES
    proc,                 \* "down", "provision", "init" or "serving"
    MEDIAPIPE_AVAILABLE,  \* outcome of the guarded imports (lines 20-29)
    embedder_service,     \* "None" or "ready" (the module-level singleton)
    modelFile,            \* models/embedder.tflite: "absent", "partial", "complete"
    fetch,                \* this start's download: "none", "skipped", "ok", "failed"
    embedderAsset,        \* the asset state the live embedder was created from
    disk,                 \* path -> content, for uploads/ and the temp directory
    clock,                \* int(time.time())
    served,               \* requests accepted so far
    req,                  \* request thread -> the handler invocation it runs
    fx                    \* argument and result of a directly applied function

vars == <<proc, MEDIAPIPE_AVAILABLE, embedder_service, modelFile, fetch,
          embedderAsset, disk, clock, served, req, fx>>

server == <<proc, MEDIAPIPE_AVAILABLE, embedder_service, modelFile, fetch,
            embedderAsset>>

\* Bounds of the model.
MaxClock == 1
MaxRequests == 2
MaxDim == 10

\* Two request threads of the threaded development server (line 354).
Threads == {1, 2}

(***************************************************************************)
(* Request contents.                                                       *)
(***************************************************************************)
\* img: "both" decodes in MediaPipe and in cv2.imread; "mp_only" decodes in
\* MediaPipe while cv2.imread returns None; "junk" decodes in neither;
\* "empty" is a temp file not yet written.
NoFile == [present |-> FALSE, filename |-> <<>>, img |-> "junk", w |-> 0, h |-> 0]

Photo == [present |-> TRUE, filename |-> <<"a", ".", "j", "p", "g">>, img |-> "both",
          w |-> 1920, h |-> 1080]

Anim == [present |-> TRUE, filename |-> <<"c", ".", "g", "i", "f">>, img |-> "mp_only",
         w |-> 23, h |-> 23]

\* secure_filename turns this name into a.jpg, the saved name of Photo.
Strip == [present |-> TRUE, filename |-> <<".", ".", "/", "a", ".", "j", "p", "g">>,
          img |-> "both", w |-> 1000, h |-> 1]

Broken == [present |-> TRUE, filename |-> <<"b", ".", "P", "N", "G">>, img |-> "junk",
           w |-> 0, h |-> 0]

Notes == [present |-> TRUE, filename |-> <<"n", "o", "t", "e", "s", ".", "t", "x", "t">>,
          img |-> "junk", w |-> 0, h |-> 0]

Unnamed == [present |-> TRUE, filename |-> <<>>, img |-> "junk", w |-> 0, h |-> 0]

\* Multipart forms sent to /upload and /api/similarity.
Forms ==
    { [image1 |-> Photo,  image2 |-> Anim],
      [image1 |-> Strip,  image2 |-> Broken],
      [image1 |-> Photo,  image2 |-> NoFile],
      [image1 |-> NoFile, image2 |-> Photo],
      [image1 |-> Photo,  image2 |-> Notes],
      [image1 |-> Photo,  image2 |-> Unnamed] }

NoForm == [image1 |-> NoFile, image2 |-> NoFile]

\* Names a client of /api/embeddings may send.
SavedName1 == <<"0", "_", "1", "_", "a", ".", "j", "p", "g">>

SavedName2 == <<"0", "_", "2", "_", "c", ".", "g", "i", "f">>

AbsentName == <<"a", ".", "j", "p", "g">>

\* JSON bodies sent to /api/embeddings (has1/has2: the key is in the body).
Bodies ==
    { [has1 |-> FALSE, has2 |-> FALSE, image1 |-> <<>>, image2 |-> <<>>],
      [has1 |-> TRUE,  has2 |-> FALSE, image1 |-> SavedName1, image2 |-> <<>>],
      [has1 |-> TRUE,  has2 |-> TRUE,  image1 |-> SavedName1, image2 |-> SavedName2],
      [has1 |-> TRUE,  has2 |-> TRUE,  image1 |-> SavedName1, image2 |-> AbsentName],
      [has1 |-> TRUE,  has2 |-> TRUE,  image1 |-> AbsentName, image2 |-> SavedName1],
      [has1 |-> TRUE,  has2 |-> TRUE,  image1 |-> SavedName1, image2 |-> <<>>],
      [has1 |-> TRUE,  has2 |-> TRUE,  image1 |-> SavedName1, image2 |-> TempPath(1)] }

NoBody == [has1 |-> FALSE, has2 |-> FALSE, image1 |-> <<>>, image2 |-> <<>>]

\* The score the toolkit's cosine_similarity returns in the server model; the
\* handlers do not branch on it, and the function specification ranges over
\* SimValues.
SimSamples == {0 - (SimUnit \div 2)}

(***************************************************************************)
(* Responses.                                                              *)
(***************************************************************************)
NoResp == [status |-> 0, view |-> "", error |-> "", similarity |-> 0, pct |-> 0,
           interpretation |-> "", path1 |-> <<>>, size1 |-> NoSize,
           path2 |-> <<>>, size2 |-> NoSize, vectors |-> FALSE]

\* flash(message, 'error'); redirect(url_for('index'))
Redirect(message) == [NoResp EXCEPT !.status = 302, !.view = "index", !.error = message]

\* jsonify({'error': message}), status
JsonError(status, message) ==
    [NoResp EXCEPT !.status = status, !.view = "json", !.error = message]

Unavailable == "MediaPipe service is not available"

\* No resize result yet.
NoOut == [path |-> <<>>, size |-> NoSize, wrote |-> FALSE, raised |-> FALSE]

Idle == [kind |-> "idle", pc |-> "idle", form |-> NoForm, body |-> NoBody, sid |-> 0,
         path1 |-> <<>>, path2 |-> <<>>, found1 |-> FALSE, found2 |-> FALSE,
         file1 |-> FALSE, file2 |-> FALSE, out1 |-> NoOut, out2 |-> NoOut,
         similarity |-> 0, cv1 |-> FALSE, cv2 |-> FALSE, io |-> {}, resp |-> NoResp]

FxOff == [op |-> "off", similarity |-> 0, path |-> <<>>, decodes |-> FALSE, w |-> 0,
          h |-> 0, desired_height |-> 0, desired_width |-> 0, computed |-> NoSize,
          resp |-> NoResp]

(***************************************************************************)
(* Process start: the module-level code of lines 20-29 and 144-154, and    *)
(* ImageEmbedderService.__init__.                                          *)
(***************************************************************************)
Init ==
    /\ proc = "down"
    /\ MEDIAPIPE_AVAILABLE = FALSE
    /\ embedder_service = "None"
    /\ modelFile = "absent"
    /\ fetch = "none"
    /\ embedderAsset = "none"
    /\ disk = [p \in {} |-> 0]
    /\ clock = 0
    /\ served = 0
    /\ req = [t \in Threads |-> Idle]
    /\ fx = FxOff

\* python app.py: the imports succeed or raise ImportError; without them the
\* server runs in demo mode with embedder_service None.
Start ==
    /\ proc = "down"
    /\ \E available \in BOOLEAN :
         /\ MEDIAPIPE_AVAILABLE' = available
         /\ proc' = IF available THEN "provision" ELSE "serving"
    /\ embedder_service' = "None"
    /\ fetch' = "none"
    /\ embedderAsset' = "none"
    /\ UNCHANGED <<modelFile, disk, clock, served, req, fx>>

\* What urllib.request.urlretrieve does: the file it leaves at the model path
\* and whether it raised.  It returns normally with the whole file, or with
\* an incomplete one (the length is checked only against a Content-Length
\* header, and the body is not inspected); it raises with nothing written
\* (the connection failed before the file was opened) or with a truncated
\* file (the transfer failed part-way).
FetchOutcomes ==
    { [file |-> "complete", raised |-> FALSE],
      [file |-> "partial",  raised |-> FALSE],
      [file |-> "absent",   raised |-> TRUE],
      [file |-> "partial",  raised |-> TRUE] }

\* The model path after _download_model_if_needed, given what urlretrieve
\* would leave there.
AssetAfterFetch(asset, outcome) == IF asset = "absent" THEN outcome.file ELSE asset

_download_model_if_needed ==
    /\ proc = "provision"
    /\ \E outcome \in FetchOutcomes :
         /\ modelFile' = AssetAfterFetch(modelFile, outcome)
         /\ IF modelFile # "absent"
            THEN fetch' = "skipped" /\ proc' = "init"
            ELSE IF ~outcome.raised
                 THEN fetch' = "ok" /\ proc' = "init"
                 ELSE fetch' = "failed" /\ proc' = "serving"   \* raise; line 150
    /\ UNCHANGED <<MEDIAPIPE_AVAILABLE, embedder_service, embedderAsset,
                   disk, clock, served, req, fx>>

\* vision.ImageEmbedder.create_from_options on the file now at the model path;
\* the toolkit accepts or rejects it.
_initialize_embedder ==
    /\ proc = "init"
    /\ \E created \in BOOLEAN :
         /\ embedder_service' = IF created THEN "ready" ELSE "None"
         /\ embedderAsset' = IF created THEN modelFile ELSE "none"
    /\ proc' = "serving"
    /\ UNCHANGED <<MEDIAPIPE_AVAILABLE, modelFile, fetch, disk, clock,
                   served, req, fx>>

\* The process is stopped between requests; the files stay.
Shutdown ==
    /\ proc = "serving"
    /\ \A t \in Threads : req[t].kind = "idle"
    /\ proc' = "down"
    /\ UNCHANGED <<MEDIAPIPE_AVAILABLE, embedder_service, modelFile, fetch,
                   embedderAsset, disk, clock, served, req, fx>>

\* A second passes while the server runs.
Tick ==
    /\ proc = "serving"
    /\ clock < MaxClock
    /\ clock' = clock + 1
    /\ UNCHANGED <<server, disk, served, req, fx>>

(***************************************************************************)
(* The file system: the working directory with uploads/ (line 44) and      *)
(* models/ (line 59), and the temp directory.  disk maps the path of each  *)
(* file of uploads/ and of the temp directory, as the handlers spell it,   *)
(* to its content; the model file is modelFile.                            *)
(***************************************************************************)
Write(d, p, c) == [q \in DOMAIN d \cup {p} |-> IF q = p THEN c ELSE d[q]]

Unlink(d, ps) == [q \in DOMAIN d \ ps |-> d[q]]

\* What file.save(path) writes for an uploaded file.
Content(file) == [img |-> file.img, w |-> file.w, h |-> file.h]

EmptyFile == [img |-> "empty", w |-> 0, h |-> 0]

\* A place of the file system is the sequence of names that leads to it from
\* the root directory.  The server is started in /srv/app.
Root == <<>>

Cwd == <<<<"s", "r", "v">>, <<"a", "p", "p">>>>

UploadsDir == Append(Cwd, UPLOAD_FOLDER)

ModelsDir == Append(Cwd, <<"m", "o", "d", "e", "l", "s">>)

TmpDir == <<<<"t", "m", "p">>>>

ModelPath == <<"m", "o", "d", "e", "l", "s", "/", "e", "m", "b", "e", "d", "d", "e", "r", ".", "t", "f", "l", "i", "t", "e">>

\* The directories: the working directory and those above it, uploads/,
\* models/ and the temp directory.
Directories ==
    {SubSeq(Cwd, 1, k) : k \in 0..Len(Cwd)} \cup {UploadsDir, ModelsDir, TmpDir}

Missing == [type |-> "missing", at |-> <<>>]

Dir(d) == [type |-> "dir", at |-> d]

File(p) == [type |-> "file", at |-> p]

\* path.split('/')
RECURSIVE Components(_, _)
Components(path, cur) ==
    IF path = <<>> THEN <<cur>>
    ELSE IF Head(path) = "/" THEN <<cur>> \o Components(Tail(path), <<>>)
    ELSE Components(Tail(path), Append(cur, Head(path)))

\* The directory '..' names in directory d; the root is its own parent.
Parent(d) == IF d = Root THEN Root ELSE SubSeq(d, 1, Len(d) - 1)

\* The entry called name of directory d: a directory, a file of uploads/ or
\* of the temp directory (under the path the handlers write it with), the
\* model file, or nothing.
Child(d, name) ==
    IF name \in {<<>>, <<".">>} THEN Dir(d)
    ELSE IF name = <<".", ".">> THEN Dir(Parent(d))
    ELSE IF Append(d, name) \in Directories THEN Dir(Append(d, name))
    ELSE IF d = UploadsDir /\ PathJoin(UPLOAD_FOLDER, name) \in DOMAIN disk
    THEN File(PathJoin(UPLOAD_FOLDER, name))
    ELSE IF d = TmpDir /\ (<<"/", "t", "m", "p", "/">> \o name) \in DOMAIN disk
    THEN File(<<"/", "t", "m", "p", "/">> \o name)
    ELSE IF d = ModelsDir /\ (<<"m", "o", "d", "e", "l", "s", "/">> \o name) = ModelPath /\ modelFile # "absent"
    THEN File(ModelPath)
    ELSE Missing

\* Path resolution from node at through the components: a component below a
\* file or below a missing entry is missing.
RECURSIVE Walk(_, _)
Walk(at, comps) ==
    IF comps = <<>> THEN at
    ELSE IF at.type # "dir" THEN Missing
    ELSE Walk(Child(at.at, Head(comps)), Tail(comps))

\* What a path names: a directory, a file or nothing.
Resolve(path) ==
    IF path = <<>> THEN Missing
    ELSE IF Head(path) = "/" THEN Walk(Dir(Root), Components(Tail(path), <<>>))
    ELSE Walk(Dir(Cwd), Components(path, <<>>))

\* os.path.exists(p): true for a file and for a directory.
Exists(p) == Resolve(p).type # "missing"

\* p names a file of uploads/ or of the temp directory.
IsStored(p) == Resolve(p).type = "file" /\ Resolve(p).at \in DOMAIN disk

\* The content read from path p.
Stored(p) == IF IsStored(p) THEN disk[Resolve(p).at] ELSE EmptyFile

\* mp.Image.create_from_file(path) followed by embedder.embed succeeds.
Embeddable(p) == Stored(p).img \in {"both", "mp_only"}

Set(t, r) == req' = [req EXCEPT ![t] = r]

\* The server hands an incoming request to its first free thread.
Accept(t) ==
    /\ proc = "serving"
    /\ req[t].kind = "idle"
    /\ \A u \in Threads : u < t => req[u].kind # "idle"
    /\ served < MaxRequests
    /\ served' = served + 1

(***************************************************************************)
(* POST /upload (lines 169-238).                                           *)
(***************************************************************************)
\* The checks of lines 172-189 and 236-238: "ok" or the flashed message.
upload_files_checks(form) ==
    IF embedder_service = "None"
    THEN "MediaPipe service is not available. Please check the server logs."
    ELSE IF ~form.image1.present \/ ~form.image2.present
    THEN "Please select both images"
    ELSE IF form.image1.filename = <<>> \/ form.image2.filename = <<>>
    THEN "Please select both images"
    ELSE IF allowed_file(form.image1.filename) /\ allowed_file(form.image2.filename)
    THEN "ok"
    ELSE "Invalid file type. Please upload PNG, JPG, JPEG, GIF, or BMP files."

\* The request arrives; a valid form gets its two timestamped save paths.
upload_files(t) ==
    /\ Accept(t)
    /\ \E form \in Forms :
         LET check == upload_files_checks(form)
             r     == [Idle EXCEPT !.kind = "upload", !.form = form, !.sid = served + 1]
         IN  IF check # "ok"
             THEN Set(t, [r EXCEPT !.pc = "done", !.resp = Redirect(check)])
             ELSE Set(t, [r EXCEPT
                      !.pc = "save1",
                      !.path1 = UploadPath(clock, 1, secure_filename(form.image1.filename)),
                      !.path2 = UploadPath(clock, 2, secure_filename(form.image2.filename))])
    /\ UNCHANGED <<server, disk, clock, fx>>

\* file1.save(...): line 205 or 263.
files_save_1(t) ==
    /\ req[t].pc = "save1"
    /\ disk' = Write(disk, req[t].path1, Content(req[t].form.image1))
    /\ Set(t, [req[t] EXCEPT !.pc = "save2", !.io = @ \cup {"save"}])
    /\ UNCHANGED <<server, clock, served, fx>>

\* file2.save(...): line 206 or 264.
files_save_2(t) ==
    /\ req[t].pc = "save2"
    /\ disk' = Write(disk, req[t].path2, Content(req[t].form.image2))
    /\ Set(t, [req[t] EXCEPT !.pc = "embed1"])
    /\ UNCHANGED <<server, clock, served, fx>>

\* The handler's except branch: lines 233-235, 279-280, 320-321.
Failed(r, message) ==
    [r EXCEPT !.pc = "done",
              !.resp = IF r.kind = "upload"
                       THEN Redirect("Error processing images")
                       ELSE JsonError(500, message)]

\* get_embedding(path1), called at line 103 (inside calculate_similarity) or
\* line 302: mp.Image.create_from_file (line 90) raises, or the thread calls
\* self.embedder.embed on the shared embedder (line 93).  No lock is taken.
get_embedding_1(t) ==
    /\ req[t].pc = "embed1"
    /\ LET r == [req[t] EXCEPT !.io = @ \cup {"embed"}]
       IN  IF Embeddable(r.path1)
           THEN Set(t, [r EXCEPT !.pc = "in_embed1"])
           ELSE Set(t, Failed(r, "embedding failed"))
    /\ UNCHANGED <<server, disk, clock, served, fx>>

\* self.embedder.embed(mp_image) returns to line 94 for the first image.
embed_1_returns(t) ==
    /\ req[t].pc = "in_embed1"
    /\ Set(t, [req[t] EXCEPT !.pc = "embed2"])
    /\ UNCHANGED <<server, disk, clock, served, fx>>

\* JSON of lines 313-318.
EmbeddingsResponse ==
    [NoResp EXCEPT !.status = 200, !.view = "json", !.vectors = TRUE]

\* get_embedding(path2), called at line 104 or line 303: as for the first
\* image, up to the call of self.embedder.embed.
get_embedding_2(t) ==
    /\ req[t].pc = "embed2"
    /\ LET r == [req[t] EXCEPT !.io = @ \cup {"embed"}]
       IN  IF Embeddable(r.path2)
           THEN Set(t, [r EXCEPT !.pc = "in_embed2"])
           ELSE Set(t, Failed(r, "embedding failed"))
    /\ UNCHANGED <<server, disk, clock, served, fx>>

\* self.embedder.embed returns for the second image, followed by
\* cosine_similarity (lines 107-112) or by the response of /api/embeddings.
embed_2_returns(t) ==
    /\ req[t].pc = "in_embed2"
    /\ LET r == req[t]
       IN  IF r.kind = "embeddings"
           THEN Set(t, [r EXCEPT !.pc = "done", !.resp = EmbeddingsResponse])
           ELSE \E similarity \in SimSamples :
                  Set(t, [r EXCEPT !.similarity = similarity,
                                   !.io = @ \cup {"similarity"},
                                   !.pc = IF r.kind = "upload" THEN "resize1"
                                                               ELSE "unlink1"])
    /\ UNCHANGED <<server, disk, clock, served, fx>>

\* cv2.imread(path) decodes the file now at path.
Decodes(path) == Stored(path).img = "both"

\* resize_image_for_display on the file now at path (line 212 or 213).
ResizeSaved(path) ==
    resize_image_for_display(path, Decodes(path), Stored(path).w, Stored(path).h,
                             DefaultDesired, DefaultDesired)

\* cv2.imwrite(display_path, resized_image)
WriteDisplay(d, out) ==
    IF out.wrote
    THEN Write(d, out.path, [img |-> "both", w |-> out.size[1], h |-> out.size[2]])
    ELSE d

\* The result dict of lines 216-229, rendered by result.html.
UploadResult(similarity, out1, out2) ==
    [NoResp EXCEPT !.status = 200, !.view = "result",
                   !.similarity = similarity,
                   !.pct = similarity_percentage(similarity),
                   !.path1 = out1.path, !.size1 = out1.size,
                   !.path2 = out2.path, !.size2 = out2.size]

\* Line 212, up to cv2.imwrite: the first image is read (cv2.imread, line
\* 120) and the resized image and its path are computed.
upload_imread_1(t) ==
    /\ req[t].pc = "resize1"
    /\ \E out1 \in {ResizeSaved(req[t].path1)} :
         Set(t, [req[t] EXCEPT !.pc = "imwrite1", !.io = @ \cup {"resize"},
                               !.cv1 = Decodes(req[t].path1), !.out1 = out1])
    /\ UNCHANGED <<server, disk, clock, served, fx>>

\* Line 212, from cv2.imwrite (line 136): the display file is written, if the
\* call got that far, and the call returns.
upload_imwrite_1(t) ==
    /\ req[t].pc = "imwrite1"
    /\ disk' = WriteDisplay(disk, req[t].out1)
    /\ IF req[t].out1.raised
       THEN Set(t, Failed(req[t], "resize failed"))
       ELSE Set(t, [req[t] EXCEPT !.pc = "resize2"])
    /\ UNCHANGED <<server, clock, served, fx>>

\* Line 213, up to cv2.imwrite, for the second image.
upload_imread_2(t) ==
    /\ req[t].pc = "resize2"
    /\ \E out2 \in {ResizeSaved(req[t].path2)} :
         Set(t, [req[t] EXCEPT !.pc = "imwrite2",
                               !.cv2 = Decodes(req[t].path2), !.out2 = out2])
    /\ UNCHANGED <<server, disk, clock, served, fx>>

\* Lines 213-231, from cv2.imwrite: the second display file is written, if
\* the call got that far, then the result view.
upload_render(t) ==
    /\ req[t].pc = "imwrite2"
    /\ disk' = WriteDisplay(disk, req[t].out2)
    /\ Set(t, [req[t] EXCEPT !.pc = "done",
                 !.resp = IF req[t].out2.raised
                          THEN Redirect("Error processing images")
                          ELSE UploadResult(req[t].similarity, req[t].out1, req[t].out2)])
    /\ UNCHANGED <<server, clock, served, fx>>

(***************************************************************************)
(* POST /api/similarity (lines 241-280).                                   *)
(***************************************************************************)
\* A plausible slip: the availability test placed after the validation.
api_similarity_checks_late(form) ==
    IF ~form.image1.present \/ ~form.image2.present
    THEN <<400, "Both images are required">>
    ELSE IF ~(allowed_file(form.image1.filename) /\ allowed_file(form.image2.filename))
    THEN <<400, "Invalid file type">>
    ELSE IF embedder_service = "None" THEN <<500, Unavailable>>
    ELSE <<200, "ok">>

\* A plausible slip: only image1 is required.
api_similarity_checks_first(form) ==
    IF embedder_service = "None" THEN <<500, Unavailable>>
    ELSE IF ~form.image1.present THEN <<400, "Both images are required">>
    ELSE IF ~allowed_file(form.image1.filename) THEN <<400, "Invalid file type">>
    ELSE <<200, "ok">>

\* The checks of lines 244-256: <<200, "ok">> or the error response.
api_similarity_checks(form) ==
    IF embedder_service = "None" THEN <<500, Unavailable>>
    ELSE IF ~form.image1.present \/ ~form.image2.present
    THEN <<400, "Both images are required">>
    ELSE IF ~(allowed_file(form.image1.filename) /\ allowed_file(form.image2.filename))
    THEN <<400, "Invalid file type">>
    ELSE <<200, "ok">>

\* The request arrives; a valid one creates its first temp file (line 260).
api_similarity(t) ==
    /\ Accept(t)
    /\ \E form \in Forms :
         LET check == api_similarity_checks(form)
             sid   == served + 1
             r     == [Idle EXCEPT !.kind = "similarity", !.form = form, !.sid = sid]
         IN  IF check[1] # 200
             THEN /\ Set(t, [r EXCEPT !.pc = "done",
                                       !.resp = JsonError(check[1], check[2])])
                  /\ disk' = disk
             ELSE /\ Set(t, [r EXCEPT !.pc = "mktemp2", !.io = {"mktemp1"},
                                       !.path1 = TempPath(2 * sid - 1)])
                  /\ disk' = Write(disk, TempPath(2 * sid - 1), EmptyFile)
    /\ UNCHANGED <<server, clock, fx>>

\* The second NamedTemporaryFile of the with statement (line 261).
api_similarity_tmp2(t) ==
    /\ req[t].pc = "mktemp2"
    /\ disk' = Write(disk, TempPath(2 * req[t].sid), EmptyFile)
    /\ Set(t, [req[t] EXCEPT !.pc = "save1", !.io = @ \cup {"mktemp"},
                             !.path2 = TempPath(2 * req[t].sid)])
    /\ UNCHANGED <<server, clock, served, fx>>

\* JSON of lines 273-277.
SimilarityResponse(similarity) ==
    [NoResp EXCEPT !.status = 200, !.view = "json",
                   !.similarity = similarity,
                   !.pct = similarity_percentage(similarity),
                   !.interpretation = get_similarity_interpretation(similarity)]

\* os.unlink(tmp1.name), line 270: reached only when calculate_similarity
\* returned.
api_similarity_unlink_1(t) ==
    /\ req[t].pc = "unlink1"
    /\ disk' = Unlink(disk, {req[t].path1})
    /\ Set(t, [req[t] EXCEPT !.pc = "unlink2", !.io = @ \cup {"unlink"}])
    /\ UNCHANGED <<server, clock, served, fx>>

\* os.unlink(tmp2.name) and the JSON: lines 271-277.
api_similarity_unlink(t) ==
    /\ req[t].pc = "unlink2"
    /\ disk' = Unlink(disk, {req[t].path2})
    /\ Set(t, [req[t] EXCEPT !.pc = "done",
                 !.resp = SimilarityResponse(req[t].similarity)])
    /\ UNCHANGED <<server, clock, served, fx>>

(***************************************************************************)
(* POST /api/embeddings (lines 283-321).                                   *)
(***************************************************************************)
\* The checks of lines 286-292: <<200, "ok">> or the error response.
api_embeddings_checks(body) ==
    IF embedder_service = "None" THEN <<500, Unavailable>>
    ELSE IF ~body.has1 \/ ~body.has2 THEN <<400, "Image filenames are required">>
    ELSE <<200, "ok">>

\* p names a regular file.
IsFile(p) == Resolve(p).type = "file"

\* The request arrives; os.path.exists(image1_path), the left operand of the
\* 'and' of line 298, is evaluated.
api_embeddings(t) ==
    /\ Accept(t)
    /\ \E body \in Bodies :
         LET check == api_embeddings_checks(body)
             p1    == PathJoin(UPLOAD_FOLDER, body.image1)
             p2    == PathJoin(UPLOAD_FOLDER, body.image2)
             r     == [Idle EXCEPT !.kind = "embeddings", !.body = body,
                                   !.sid = served + 1]
         IN  IF check[1] # 200
             THEN Set(t, [r EXCEPT !.pc = "done", !.resp = JsonError(check[1], check[2])])
             ELSE \E q \in {[r EXCEPT !.io = {"exists1"}, !.path1 = p1, !.path2 = p2,
                                      !.found1 = Exists(p1), !.file1 = IsFile(p1)]} :
                    IF q.found1
                    THEN Set(t, [q EXCEPT !.pc = "exists2"])
                    ELSE Set(t, [q EXCEPT !.pc = "done",
                                          !.resp = JsonError(404, "Image files not found")])
    /\ UNCHANGED <<server, disk, clock, fx>>

\* os.path.exists(image2_path), the right operand of the 'and' of line 298.
api_embeddings_exists_2(t) ==
    /\ req[t].pc = "exists2"
    /\ \E q \in {[req[t] EXCEPT !.io = @ \cup {"exists2"},
                                !.found2 = Exists(req[t].path2),
                                !.file2 = IsFile(req[t].path2)]} :
         IF q.found2
         THEN Set(t, [q EXCEPT !.pc = "embed1"])
         ELSE Set(t, [q EXCEPT !.pc = "done",
                               !.resp = JsonError(404, "Image files not found")])
    /\ UNCHANGED <<server, disk, clock, served, fx>>

\* The response leaves; the thread is free for the next request.
Respond(t) ==
    /\ req[t].pc = "done"
    /\ Set(t, Idle)
    /\ UNCHANGED <<server, disk, clock, served, fx>>

Next ==
    \/ Start
    \/ _download_model_if_needed
    \/ _initialize_embedder
    \/ Shutdown
    \/ Tick
    \/ \E t \in Threads :
         \/ upload_files(t)
         \/ files_save_1(t)
         \/ files_save_2(t)
         \/ get_embedding_1(t)
         \/ embed_1_returns(t)
         \/ get_embedding_2(t)
         \/ embed_2_returns(t)
         \/ upload_imread_1(t)
         \/ upload_imwrite_1(t)
         \/ upload_imread_2(t)
         \/ upload_render(t)
         \/ api_similarity(t)
         \/ api_similarity_tmp2(t)
         \/ api_similarity_unlink_1(t)
         \/ api_similarity_unlink(t)
         \/ api_embeddings(t)
         \/ api_embeddings_exists_2(t)
         \/ Respond(t)

Spec == Init /\ [][Next]_vars

(***************************************************************************)
(* The numeric and geometric functions applied directly to their inputs.   *)
(***************************************************************************)
Dims == (1..MaxDim) \cup {23, 46, 1000, 1080, 1920}

Desired == {7, 300, DefaultDesired}

FxSimArgs == {[FxOff EXCEPT !.op = "sim", !.similarity = k] : k \in SimValues}

\* Names of uploads that pass allowed_file: a.jpg, c.gif, and '.jpg', which
\* secure_filename turns into 'jpg', a saved name with no extension.
SampleNames == {Photo.filename, Anim.filename, <<".", "j", "p", "g">>}

\* The paths upload_files saves such uploads under (lines 192-203) and hands
\* to resize_image_for_display: uploads/0_1_a.jpg, uploads/0_1_c.gif and
\* uploads/0_1_jpg. cv2.imwrite has a writer for the display path of the
\* first only.
SamplePaths == {UploadPath(0, 1, secure_filename(f)) : f \in SampleNames}

FxImgArgs ==
    {[FxOff EXCEPT !.op = "img", !.decodes = a[1], !.w = a[2], !.h = a[3],
                   !.desired_height = a[4], !.desired_width = a[5], !.path = a[6]] :
       a \in BOOLEAN \X Dims \X Dims \X Desired \X Desired \X SamplePaths}

\* The file the direct call reads: an image of the given shape that
\* cv2.imread decodes, or one it does not.
SampleFile(a) == [img |-> IF a.decodes THEN "both" ELSE "mp_only", w |-> a.w, h |-> a.h]

InitFn ==
    /\ proc = "down"
    /\ MEDIAPIPE_AVAILABLE = FALSE
    /\ embedder_service = "None"
    /\ modelFile = "absent"
    /\ fetch = "none"
    /\ embedderAsset = "none"
    /\ fx \in FxSimArgs \cup FxImgArgs
    /\ disk = IF fx.op = "img"
              THEN Write([p \in {} |-> 0], fx.path, SampleFile(fx))
              ELSE [p \in {} |-> 0]
    /\ clock = 0
    /\ served = 0
    /\ req = [t \in Threads |-> Idle]

\* The score fields of the form path's result (lines 216-218).
FormResult ==
    /\ fx.op = "sim"
    /\ fx' = [fx EXCEPT !.op = "form", !.resp = UploadResult(fx.similarity, NoOut, NoOut)]
    /\ UNCHANGED <<server, disk, clock, served, req>>

\* The JSON of /api/similarity (lines 273-277).
ApiResult ==
    /\ fx.op = "sim"
    /\ fx' = [fx EXCEPT !.op = "api", !.resp = SimilarityResponse(fx.similarity)]
    /\ UNCHANGED <<server, disk, clock, served, req>>

\* resize_image_for_display(path, desired_height, desired_width) on the file
\* at fx.path: (new_width, new_height) as lines 125-130 compute them once
\* cv2.imread has decoded the file, the returned pair, and the display file
\* written.
ResizeResult ==
    /\ fx.op = "img"
    /\ LET image == Stored(fx.path)
           out   == resize_image_for_display(fx.path, Decodes(fx.path), image.w, image.h,
                                             fx.desired_height, fx.desired_width)
       IN  /\ fx' = [fx EXCEPT !.op = "resize",
                               !.computed = IF Decodes(fx.path)
                                            THEN NewSize(image.w, image.h,
                                                         fx.desired_height, fx.desired_width)
                                            ELSE NoSize,
                               !.resp = [NoResp EXCEPT !.path1 = out.path,
                                                       !.size1 = out.size]]
           /\ disk' = WriteDisplay(disk, out)
    /\ UNCHANGED <<server, clock, served, req>>

NextFn == FormResult \/ ApiResult \/ ResizeResult

SpecFn == InitFn /\ [][NextFn]_vars

(***************************************************************************)
(* Properties.                                                             *)
(***************************************************************************)
Busy(t) == req[t].kind # "idle"

ValidForm(form) ==
    /\ form.image1.present /\ form.image2.present
    /\ allowed_file(form.image1.filename) /\ allowed_file(form.image2.filename)

OneField(form) == form.image1.present # form.image2.present

\* C1: while embedder_service is None, every request to /upload,
\* /api/similarity or /api/embeddings, whatever it carries, is answered at
\* once with the service-unavailable response (the flashed message and the
\* redirect for the form, the JSON error for the two API routes) and has
\* saved no file, created no temp file, looked up no file and made no
\* embedding or similarity call.
C1_DegradedShortCircuit ==
    \A t \in Threads :
        (Busy(t) /\ embedder_service = "None") =>
            /\ req[t].pc = "done"
            /\ req[t].io = {}
            /\ req[t].kind = "upload" =>
                 req[t].resp = Redirect(
                   "MediaPipe service is not available. Please check the server logs.")
            /\ req[t].kind \in {"similarity", "embeddings"} =>
                 req[t].resp = JsonError(500, Unavailable)
            /\ DOMAIN disk \cap {TempPath(2 * req[t].sid - 1), TempPath(2 * req[t].sid)} = {}

C1_Witness ==
    /\ embedder_service = "None"
    /\ req[1].kind = "similarity" /\ ValidForm(req[1].form) /\ req[1].pc = "done"
    /\ req[2].kind = "upload" /\ ValidForm(req[2].form) /\ req[2].pc = "done"

\* C2 (as claimed): whenever /api/similarity has created its two temp files,
\* neither exists any more when the response is returned, also when
\* calculate_similarity raised.
C2_TempFilesDeleted ==
    \A t \in Threads :
        (req[t].kind = "similarity" /\ req[t].pc = "done" /\ "mktemp" \in req[t].io) =>
            ~Exists(req[t].path1) /\ ~Exists(req[t].path2)

\* C3 (as claimed): a request to /api/similarity carrying exactly one of the
\* fields image1 / image2 gets HTTP 400 with an error and makes no embedding
\* or similarity call and no temp file.
C3_OneFieldIs400 ==
    \A t \in Threads :
        (req[t].kind = "similarity" /\ OneField(req[t].form)) =>
            /\ req[t].pc = "done"
            /\ req[t].resp.status = 400
            /\ req[t].resp.error # ""
            /\ req[t].io = {}

\* C3 (amended): when the Embedding Service is initialized, a request to
\* /api/similarity carrying exactly one of the fields image1 / image2 gets
\* HTTP 400 with an error and makes no embedding or similarity call and no
\* temp file.
C3_OneFieldIs400WhenReady ==
    \A t \in Threads :
        (req[t].kind = "similarity" /\ OneField(req[t].form)
           /\ embedder_service # "None") =>
            /\ req[t].pc = "done"
            /\ req[t].resp.status = 400
            /\ req[t].resp.error # ""
            /\ req[t].io = {}
            /\ ~Exists(TempPath(2 * req[t].sid - 1)) /\ ~Exists(TempPath(2 * req[t].sid))

C3_Witness ==
    \E t \in Threads :
        /\ embedder_service = "ready"
        /\ req[t].kind = "similarity" /\ req[t].pc = "done"
        /\ req[t].form.image1.present /\ ~req[t].form.image2.present
        /\ req[t].resp.status = 400

\* C4 (as claimed): with the service initialized and both image1 and image2
\* named in the body, /api/embeddings answers 404 with no embedding data and
\* calls get_embedding for neither file whenever a lookup found that the
\* named path is not a file.
C4_MissingFileIs404 ==
    \A t \in Threads :
        (req[t].kind = "embeddings" /\ embedder_service = "ready"
           /\ req[t].body.has1 /\ req[t].body.has2
           /\ \/ "exists1" \in req[t].io /\ ~req[t].file1
              \/ "exists2" \in req[t].io /\ ~req[t].file2) =>
            /\ req[t].pc = "done"
            /\ req[t].resp.status = 404
            /\ ~req[t].resp.vectors
            /\ "embed" \notin req[t].io

InProgress(t) ==
    /\ req[t].kind = "upload"
    /\ req[t].pc \in {"save1", "save2", "embed1", "in_embed1", "embed2", "in_embed2",
                     "resize1", "imwrite1", "resize2", "imwrite2"}

\* C5 (as claimed): two form submissions that are both between validation
\* and the result view never share a save path, so neither overwrites a file
\* the other still has to embed or resize.
C5_DistinctSavePaths ==
    \A t, u \in Threads :
        (t # u /\ InProgress(t) /\ InProgress(u)) =>
            {req[t].path1, req[t].path2} \cap {req[u].path1, req[u].path2} = {}

\* C6 (as claimed): once _download_model_if_needed has run, the model path
\* holds the complete file or nothing; a live embedder was created from the
\* complete file; and a failed fetch leaves embedder_service None.
C6_AtomicProvisioning ==
    /\ (MEDIAPIPE_AVAILABLE /\ proc \in {"init", "serving"}) =>
          modelFile \in {"absent", "complete"}
    /\ embedder_service = "ready" => embedderAsset = "complete"
    /\ fetch = "failed" => embedder_service = "None"

Abs(x) == IF x < 0 THEN 0 - x ELSE x

\* p hundredths of a percent is similarity * 100 rounded to two decimals:
\* nearest, and even when two are equally near.
IsRounded(p, similarity) ==
    LET err == Abs(p * SimUnit - similarity * 10000)
    IN  2 * err <= SimUnit /\ (2 * err = SimUnit => p % 2 = 0)

\* C7 (as claimed): for every similarity in [-1, 1], on the form path and on
\* /api/similarity, 0 <= similarity_percentage <= 100 and
\* similarity_percentage == round(similarity * 100, 2).
C7_PercentageIn0To100 ==
    fx.op \in {"form", "api"} =>
        /\ 0 <= fx.resp.pct /\ fx.resp.pct <= 10000
        /\ IsRounded(fx.resp.pct, fx.similarity)

\* C7 (amended): for every similarity in [-1, 1], on the form path and on
\* /api/similarity, -100 <= similarity_percentage <= 100, with the sign of
\* the similarity, and similarity_percentage == round(similarity * 100, 2).
C7_PercentageRounded ==
    fx.op \in {"form", "api"} =>
        /\ 0 - 10000 <= fx.resp.pct /\ fx.resp.pct <= 10000
        /\ fx.similarity >= 0 => fx.resp.pct >= 0
        /\ fx.similarity <= 0 => fx.resp.pct <= 0
        /\ IsRounded(fx.resp.pct, fx.similarity)
        /\ fx.resp.similarity = fx.similarity

C7_Witness ==
    /\ fx.op = "form"
    /\ fx.similarity < 0
    /\ fx.resp.pct < 0
    /\ 2 * Abs(fx.resp.pct * SimUnit - fx.similarity * 10000) = SimUnit

\* The size the claim's formulas give.
C8_ClaimedSize(w, h, desired_height, desired_width) ==
    IF w >= h THEN <<desired_width, (h * desired_width) \div w>>
              ELSE <<(w * desired_height) \div h, desired_height>>

\* C8 (as claimed): the size computed for every decoded w x h image is
\* width-constrained, (desired_width, floor(h*desired_width/w)), if w >= h
\* and height-constrained, (floor(w*desired_height/h), desired_height),
\* otherwise; 1920x1080 with both maxima 480 gives 480x270.
C8_SizeAsClaimed ==
    (fx.op = "resize" /\ fx.decodes) =>
        fx.computed = C8_ClaimedSize(fx.w, fx.h, fx.desired_height, fx.desired_width)

\* C8 (amended): the size computed for every decoded w x h image, whatever
\* the image path, is width-constrained only if w > h, and height-constrained
\* otherwise, w = h included; the other side is floor(h / (w /
\* desired_width)), resp. floor(w / (h / desired_height)), in double
\* arithmetic, which is the exact floor of h*desired_width/w, resp.
\* w*desired_height/h, or one less, and one less only where that quotient is
\* an integer; 1920x1080 with both maxima 480 gives 480x270.
C8_SizeAsComputed ==
    (fx.op = "resize" /\ fx.decodes) =>
        LET wide  == fx.w > fx.h
            num   == IF wide THEN fx.h * fx.desired_width ELSE fx.w * fx.desired_height
            den   == IF wide THEN fx.w ELSE fx.h
            exact == num \div den
            size  == fx.computed
        IN  /\ size # NoSize
            /\ LET cap   == IF wide THEN size[1] ELSE size[2]
                   other == IF wide THEN size[2] ELSE size[1]
               IN  /\ cap = (IF wide THEN fx.desired_width ELSE fx.desired_height)
                   /\ other \in {exact, exact - 1}
                   /\ other = exact - 1 => num % den = 0
            /\ (fx.w = 1920 /\ fx.h = 1080 /\ fx.desired_width = DefaultDesired
                  /\ fx.desired_height = DefaultDesired) => size = <<480, 270>>

\* A square image with desired_width < desired_height, height-constrained,
\* on a path whose display file cv2.imwrite cannot encode.
C8_Witness ==
    /\ fx.op = "resize" /\ fx.decodes
    /\ fx.w = fx.h
    /\ fx.desired_width < fx.desired_height
    /\ fx.computed[2] = fx.desired_height
    /\ fx.computed[1] > fx.desired_width
    /\ ~HasWriter(DisplayPath(fx.path))
    /\ fx.resp.size1 = NoSize

\* C9: a failing resize does not fail a form submission: once similarity has
\* been computed the handler ends in the result view with that score, and an
\* image whose resize failed (cv2.imread did not decode it, or the resize
\* raised) is shown from its original saved path with no size.
C9_ResizeFailureNonFatal ==
    \A t \in Threads :
        (req[t].kind = "upload" /\ "similarity" \in req[t].io) =>
            /\ req[t].pc \in {"resize1", "imwrite1", "resize2", "imwrite2", "done"}
            /\ req[t].pc = "done" =>
                 /\ req[t].resp.status = 200
                 /\ req[t].resp.view = "result"
                 /\ req[t].resp.similarity = req[t].similarity
                 /\ ~req[t].cv1 =>
                      req[t].resp.path1 = req[t].path1 /\ req[t].resp.size1 = NoSize
                 /\ ~req[t].cv2 =>
                      req[t].resp.path2 = req[t].path2 /\ req[t].resp.size2 = NoSize
                 /\ req[t].resp.size1 = NoSize => req[t].resp.path1 = req[t].path1
                 /\ req[t].resp.size2 = NoSize => req[t].resp.path2 = req[t].path2

C9_Witness ==
    \E t \in Threads :
        /\ req[t].kind = "upload" /\ req[t].pc = "done"
        /\ "resize" \in req[t].io
        /\ ~req[t].cv2
        /\ req[t].resp.status = 200
        /\ req[t].resp.path2 = req[t].path2
        /\ req[t].resp.size1 = <<480, 270>>

\* C10: every score of [-1, 1] gets exactly the label of its range: "Very
\* similar images" from 0.9, "Similar images" in [0.7, 0.9), "Somewhat
\* similar images" in [0.5, 0.7), "Slightly similar images" in [0.3, 0.5),
\* "Very different images" below 0.3; the boundaries belong to the upper
\* range.
C10_InterpretationTable ==
    fx.op = "api" =>
        LET s10   == 10 * fx.similarity
            label == fx.resp.interpretation
        IN  /\ s10 >= 9 * SimUnit <=> label = "Very similar images"
            /\ (7 * SimUnit <= s10 /\ s10 < 9 * SimUnit) <=> label = "Similar images"
            /\ (5 * SimUnit <= s10 /\ s10 < 7 * SimUnit) <=>
                 label = "Somewhat similar images"
            /\ (3 * SimUnit <= s10 /\ s10 < 5 * SimUnit) <=>
                 label = "Slightly similar images"
            /\ s10 < 3 * SimUnit <=> label = "Very different images"

C10_Witness ==
    /\ fx.op = "api"
    /\ 10 * fx.similarity = 9 * SimUnit
    /\ fx.resp.interpretation = "Very similar images"

\* Thread t is inside self.embedder.embed on the shared embedder (line 93).
InEmbed(t) == req[t].pc \in {"in_embed1", "in_embed2"}

\* C11: access to the shared embedder is serialized: at no time are two
\* requests (any mix of /upload, /api/similarity and /api/embeddings) inside
\* an embedder.embed call at once.
C11_EmbedSerialized ==
    \A t, u \in Threads : InEmbed(t) /\ InEmbed(u) => t = u

====
